---- MODULE Spec2Model ----
EXTENDS Integers, Naturals, Sequences, FiniteSets, TLC

\* gitop: repository registry (App.repos), console log (App.console_messages),
\* table selection (App.table_state), the background poller
\* (monitor_repositories) and the interactive loop (run_app / ui / handle_key).

\* ---------------------------------------------------------------- bounds
MaxRepos == 2
MaxCount == 1
MaxCommits == 2
MaxTicks == 1
LockTicks == 2
PollTicks == 2
LogMaxTicks == 50
NavMaxRepos == 3

\* ---------------------------------------------------------------- constants
Capacity == 50
CommitMsgCap == 5

NoSel == -1
Branches == {"main"}
\* RepoConfig.remote of the i-th configured repository: unset (None) or a non-default remote
CfgRemoteOf(i) == IF i % 2 = 1 THEN "none" ELSE "upstream"

VARIABLES
    repos,       \* Vec<RepoStatus>: ahead, behind, current_branch, expanded, recent_commits (length)
    cfgRemote,   \* RepoConfig.remote of each configured repository
    log,         \* Vec<ConsoleMessage>, each message identified by its append number
    nextId,      \* number of messages appended so far
    sel,         \* table_state.selected(): NoSel or a table row
    mainPc,      \* "startup" (startup validation pending) or "run"
    shouldQuit,  \* App.should_quit
    lockR,       \* holder of the repos mutex across steps: "none" or "poller"
    pollerPc,    \* "idle" (awaiting interval.tick), "tick", or "blocked" (a query never returned)
    pIdx,        \* 0-based index of the next repository the current tick queries
    ticks,       \* completed poller ticks
    tickBudget,  \* ticks the poller may still start (model bound)
    lastPoll,    \* what the last poller step of the current tick did for its repository
    lastKey,     \* KeyCode last passed to App::handle_key
    holdR,       \* holder of the repos mutex: "none", "main", "ui" or "poller"
    holdL,       \* holder of the console_messages mutex
    lkMain,      \* main's position in the startup validation block
    lkUi,        \* the interactive loop's position (draw, key handling)
    lkPoll,      \* the poller's position within its tick
    lkIdx,       \* repositories the poller has finished in the current tick
    lkTicks      \* ticks the poller has completed (lock-level view)

lockVars == <<holdR, holdL, lkMain, lkUi, lkPoll, lkIdx, lkTicks>>

progVars == <<repos, cfgRemote, log, nextId, sel, mainPc, shouldQuit, lockR,
              pollerPc, pIdx, ticks, tickBudget, lastPoll, lastKey>>

vars == <<repos, cfgRemote, log, nextId, sel, mainPc, shouldQuit, lockR,
          pollerPc, pIdx, ticks, tickBudget, lastPoll, lastKey,
          holdR, holdL, lkMain, lkUi, lkPoll, lkIdx, lkTicks>>

Min(a, b) == IF a < b THEN a ELSE b

NoPoll == [repo |-> -1, remote |-> "-", ok |-> FALSE, events |-> <<>>]

\* ---------------------------------------------------------------- App::new
NewRepo == [ahead |-> 0, behind |-> 0, branch |-> "unknown",
            expanded |-> FALSE, commits |-> 0]

\* the first row selected even with no repositories
InitSelectionMut(n) == 0

InitSelection(n) == IF n = 0 THEN NoSel ELSE 0

\* ---------------------------------------------------------------- table rows
RowSpan(r) == 1 + (IF r.expanded THEN r.commits ELSE 0)

\* commit rows counted also for collapsed repositories
RECURSIVE CalcRowLoopMut(_, _, _, _)
CalcRowLoopMut(rs, idx, i, row) ==
    IF i >= Len(rs) THEN row
    ELSE IF i = idx THEN row
    ELSE CalcRowLoopMut(rs, idx, i + 1, row + 1 + rs[i + 1].commits)

RECURSIVE CalcRowLoop(_, _, _, _)
CalcRowLoop(rs, idx, i, row) ==
    IF i >= Len(rs) THEN row
    ELSE IF i = idx THEN row
    ELSE CalcRowLoop(rs, idx, i + 1, row + RowSpan(rs[i + 1]))

\* App::calculate_table_row (flatten)
CalculateTableRow(rs, idx) == CalcRowLoop(rs, idx, 0, 0)

\* the span test with >= instead of >
RECURSIVE SelIdxLoopMut(_, _, _, _)
SelIdxLoopMut(rs, s, i, cur) ==
    IF i >= Len(rs) THEN 0
    ELSE IF cur = s THEN i
    ELSE LET c2 == cur + RowSpan(rs[i + 1])
         IN IF c2 >= s THEN i ELSE SelIdxLoopMut(rs, s, i + 1, c2)

RECURSIVE SelIdxLoop(_, _, _, _)
SelIdxLoop(rs, s, i, cur) ==
    IF i >= Len(rs) THEN 0
    ELSE IF cur = s THEN i
    ELSE LET c2 == cur + RowSpan(rs[i + 1])
         IN IF c2 > s THEN i ELSE SelIdxLoop(rs, s, i + 1, c2)

\* App::get_selected_repo_index (unflatten)
GetSelectedRepoIndex(rs, s) ==
    IF Len(rs) = 0 THEN 0
    ELSE IF s = NoSel THEN 0
    ELSE SelIdxLoop(rs, s, 0, 0)

\* ---------------------------------------------------------------- poller helpers
\* the remote monitor_repositories passes to get_repo_status
PollRemote(cfg) == "origin"

\* get_repo_status outcomes: an error, or (ahead, behind, branch)
VcsResults == {[ok |-> FALSE]} \cup [ok : {TRUE}, a : 0..MaxCount, b : 0..MaxCount, branch : Branches]

\* the behind-only branch tested before the combined one
DeltaEventMut(pa, pb, a, b) ==
    IF b > pb THEN <<"new">>
    ELSE IF b > pb /\ a > pa THEN <<"status">>
    ELSE IF a > pa THEN <<"local">>
    ELSE <<>>

\* change notification chosen by the if / else if chain
DeltaEvent(pa, pb, a, b) ==
    IF b > pb /\ a > pa THEN <<"status">>
    ELSE IF b > pb THEN <<"new">>
    ELSE IF a > pa THEN <<"local">>
    ELSE <<>>

CaughtUpEvent(pa, pb, a, b) ==
    IF (pb > 0 \/ pa > 0) /\ b = 0 /\ a = 0 THEN <<"caught">> ELSE <<>>

CommitEvents(pa, a, k) ==
    IF a > pa THEN [j \in 1..k |-> "commit"] ELSE <<>>

\* upper bound on the commits get_recent_commits returns for the new-commit messages
NewCommitMax(pa, a) == IF a > pa THEN Min(a - pa, CommitMsgCap) ELSE 0

Named(kinds, name) == [j \in 1..Len(kinds) |-> [kind |-> kinds[j], repo |-> name]]

\* records appended to the log get the next append numbers
AppendIds(l, from, cnt) == l \o [j \in 1..cnt |-> from + j - 1]

\* console_guard.drain(0..len - 50) when len > 50
TrimLog(l) == IF Len(l) > Capacity THEN SubSeq(l, Len(l) - Capacity + 1, Len(l)) ELSE l

\* on success: new repo status, the messages appended (in order), whether the log is trimmed
OkRepo(r, res) == [r EXCEPT !.ahead = res.a, !.behind = res.b, !.branch = res.branch]

OkKinds(r, res, k) ==
    DeltaEvent(r.ahead, r.behind, res.a, res.b)
      \o CaughtUpEvent(r.ahead, r.behind, res.a, res.b)
      \o CommitEvents(r.ahead, res.a, k)

\* a failed query resetting the counts to zero
ErrRepoMut(r) == [r EXCEPT !.ahead = 0, !.behind = 0]

\* a failed query leaves the repository's status as it was
ErrRepo(r) == r

ErrKinds == <<"error">>

\* ---------------------------------------------------------------- Init
\* App::new over a configuration of n repositories (n drawn from nset); the
\* poller may start at most budget ticks
InitWith(nset, budget) ==
    \E n \in nset :
        /\ repos = [i \in 1..n |-> NewRepo]
        /\ cfgRemote = [i \in 1..n |-> CfgRemoteOf(i)]
        /\ log = <<>>
        /\ nextId = 0
        /\ sel = InitSelection(n)
        /\ mainPc = "startup"
        /\ shouldQuit = FALSE
        /\ lockR = "none"
        /\ pollerPc = "idle"
        /\ pIdx = 0
        /\ ticks = 0
        /\ tickBudget = budget
        /\ lastPoll = NoPoll
        /\ lastKey = "none"
        /\ holdR = "none"
        /\ holdL = "none"
        /\ lkMain = "s0"
        /\ lkUi = "off"
        /\ lkPoll = "off"
        /\ lkIdx = 0
        /\ lkTicks = 0

Init == InitWith(0..MaxRepos, MaxTicks)

\* at least one repository, a poller allowed several ticks
PollInit == InitWith(1..MaxRepos, PollTicks)

\* one repository, a poller allowed many ticks
LogInit == InitWith({1}, LogMaxTicks)

\* ---------------------------------------------------------------- main: startup validation
\* "Started monitoring" plus one warning per repository whose path is missing or not a git repo
Startup ==
    /\ mainPc = "startup"
    /\ \E bad \in SUBSET DOMAIN repos :
          LET cnt == 1 + Cardinality(bad) IN
          /\ log' = AppendIds(log, nextId, cnt)
          /\ nextId' = nextId + cnt
    /\ mainPc' = "run"
    /\ UNCHANGED <<repos, cfgRemote, sel, shouldQuit, lockR, pollerPc, pIdx,
                   ticks, tickBudget, lastPoll, lastKey>>
    /\ UNCHANGED lockVars

\* ---------------------------------------------------------------- monitor_repositories
\* interval.tick() then repos.lock(); App.should_quit is never read here, so a tick can
\* still start after 'q' until the runtime is dropped at the end of main
PollerStart ==
    /\ mainPc = "run"
    /\ pollerPc = "idle"
    /\ ticks < tickBudget
    /\ lockR = "none"
    /\ lockR' = "poller"
    /\ pollerPc' = "tick"
    /\ pIdx' = 0
    /\ UNCHANGED <<repos, cfgRemote, log, nextId, sel, mainPc, shouldQuit,
                   ticks, tickBudget, lastPoll, lastKey>>
    /\ UNCHANGED lockVars

PollerStep ==
    /\ pollerPc = "tick"
    /\ pIdx < Len(repos)
    /\ LET i == pIdx + 1
           r == repos[i]
       IN \E res \in VcsResults :
          IF ~res.ok
          THEN /\ repos' = [repos EXCEPT ![i] = ErrRepo(r)]
               /\ log' = AppendIds(log, nextId, Len(ErrKinds))
               /\ nextId' = nextId + Len(ErrKinds)
               /\ lastPoll' = [repo |-> pIdx, remote |-> PollRemote(cfgRemote[i]),
                               ok |-> FALSE, events |-> Named(ErrKinds, pIdx)]
          ELSE \E k \in 0..NewCommitMax(r.ahead, res.a) :
               LET kinds == OkKinds(r, res, k)
                   grown == AppendIds(log, nextId, Len(kinds))
               IN /\ repos' = [repos EXCEPT ![i] = OkRepo(r, res)]
                  /\ log' = IF res.a > r.ahead THEN TrimLog(grown) ELSE grown
                  /\ nextId' = nextId + Len(kinds)
                  /\ lastPoll' = [repo |-> pIdx, remote |-> PollRemote(cfgRemote[i]),
                                  ok |-> TRUE, events |-> Named(kinds, pIdx)]
    /\ pIdx' = pIdx + 1
    /\ UNCHANGED <<cfgRemote, sel, mainPc, shouldQuit, lockR, pollerPc,
                   ticks, tickBudget, lastKey>>
    /\ UNCHANGED lockVars

\* get_repo_status for the next repository never returns: remote_ref.fetch is called
\* with no options (no timeout), so a remote that accepts the connection and never
\* answers blocks the tick for good, with repos_guard still held
PollerHang ==
    /\ pollerPc = "tick"
    /\ pIdx < Len(repos)
    /\ pollerPc' = "blocked"
    /\ UNCHANGED <<repos, cfgRemote, log, nextId, sel, mainPc, shouldQuit, lockR,
                   pIdx, ticks, tickBudget, lastPoll, lastKey>>
    /\ UNCHANGED lockVars

\* drop(repos_guard) after the loop over all repositories
PollerEnd ==
    /\ pollerPc = "tick"
    /\ pIdx >= Len(repos)
    /\ lockR' = "none"
    /\ pollerPc' = "idle"
    /\ ticks' = ticks + 1
    /\ lastPoll' = NoPoll
    /\ UNCHANGED <<repos, cfgRemote, log, nextId, sel, mainPc, shouldQuit,
                   pIdx, tickBudget, lastKey>>
    /\ UNCHANGED lockVars

\* ---------------------------------------------------------------- interactive loop
\* the interactive loop reading the registry without taking the lock
RegistryLockFreeMut == TRUE

\* the interactive loop's repos.lock() succeeds only when the poller is not inside a tick
RegistryLockFree == lockR = "none"

UIReady == mainPc = "run" /\ ~shouldQuit /\ RegistryLockFree

\* ui(): style of a repository row: Style::default() whatever the repository's state
UiRowStyle(r) == "default"

\* ui(): emphasis modifier of a repository row: none is added (only the selected row
\* gets highlight_style)
UiRowEmphasis(r) == "none"

\* ui(): reads the registry and the log under the locks; changes no model state
Render ==
    /\ UIReady
    /\ UNCHANGED <<repos, cfgRemote, log, nextId, sel, mainPc, shouldQuit, lockR,
                   pollerPc, pIdx, ticks, tickBudget, lastPoll, lastKey>>
    /\ UNCHANGED lockVars

\* App::next (KeyCode::Down)
NextRepoIndex(cur, n) == IF cur >= n - 1 THEN 0 ELSE cur + 1

KeyDown ==
    /\ UIReady
    /\ IF Len(repos) = 0 THEN sel' = sel
       ELSE sel' = CalculateTableRow(repos,
                     NextRepoIndex(GetSelectedRepoIndex(repos, sel), Len(repos)))
    /\ lastKey' = "down"
    /\ UNCHANGED <<repos, cfgRemote, log, nextId, mainPc, shouldQuit, lockR,
                   pollerPc, pIdx, ticks, tickBudget, lastPoll>>
    /\ UNCHANGED lockVars

\* App::previous (KeyCode::Up)
\* previous() without the wrap-around to the last repository
PrevRepoIndexMut(cur, n) == IF cur = 0 THEN 0 ELSE cur - 1

PrevRepoIndex(cur, n) == IF cur = 0 THEN n - 1 ELSE cur - 1

KeyUp ==
    /\ UIReady
    /\ IF Len(repos) = 0 THEN sel' = sel
       ELSE sel' = CalculateTableRow(repos,
                     PrevRepoIndex(GetSelectedRepoIndex(repos, sel), Len(repos)))
    /\ lastKey' = "up"
    /\ UNCHANGED <<repos, cfgRemote, log, nextId, mainPc, shouldQuit, lockR,
                   pollerPc, pIdx, ticks, tickBudget, lastPoll>>
    /\ UNCHANGED lockVars

\* App::toggle_expand (KeyCode::Enter); get_recent_commits returns up to max_commits commits
\* commits refetched on every toggle, collapsing included
ToggleRepoMut(r, fetched) == [r EXCEPT !.expanded = ~r.expanded, !.commits = fetched]

ToggleRepo(r, fetched) ==
    IF r.expanded THEN [r EXCEPT !.expanded = FALSE]
    ELSE [r EXCEPT !.expanded = TRUE, !.commits = fetched]

KeyEnter ==
    /\ UIReady
    /\ IF Len(repos) = 0
       THEN UNCHANGED <<repos, sel>>
       ELSE LET idx == GetSelectedRepoIndex(repos, sel) IN
            \E fetched \in 0..MaxCommits :
               LET rs2 == [repos EXCEPT ![idx + 1] = ToggleRepo(repos[idx + 1], fetched)]
               IN /\ repos' = rs2
                  /\ sel' = CalculateTableRow(rs2, idx)
    /\ lastKey' = "enter"
    /\ UNCHANGED <<cfgRemote, log, nextId, mainPc, shouldQuit, lockR,
                   pollerPc, pIdx, ticks, tickBudget, lastPoll>>
    /\ UNCHANGED lockVars

\* KeyCode::Char('q'): no lock taken
KeyQuit ==
    /\ mainPc = "run"
    /\ ~shouldQuit
    /\ shouldQuit' = TRUE
    /\ lastKey' = "q"
    /\ UNCHANGED <<repos, cfgRemote, log, nextId, sel, mainPc, lockR,
                   pollerPc, pIdx, ticks, tickBudget, lastPoll>>
    /\ UNCHANGED lockVars

\* ---------------------------------------------------------------- lock-level view
\* Acquisition and release of the two mutexes, one step each, by main's startup
\* validation, ui() and handle_key in run_app's loop, and monitor_repositories.

\* main: repos.lock() (line 763)
LkMainAcqR ==
    /\ lkMain = "s0" /\ holdR = "none"
    /\ holdR' = "main" /\ lkMain' = "s1"
    /\ UNCHANGED <<holdL, lkUi, lkPoll, lkIdx, lkTicks>>
    /\ UNCHANGED progVars

\* main: console_messages.lock() (line 765)
LkMainAcqL ==
    /\ lkMain = "s1" /\ holdL = "none"
    /\ holdL' = "main" /\ lkMain' = "s2"
    /\ UNCHANGED <<holdR, lkUi, lkPoll, lkIdx, lkTicks>>
    /\ UNCHANGED progVars

\* main: both guards dropped at the end of the block, then run_app spawns the poller
\* and enters the UI loop
LkMainRel ==
    /\ lkMain = "s2"
    /\ holdR' = "none" /\ holdL' = "none" /\ lkMain' = "done"
    /\ lkUi' = "loop" /\ lkPoll' = "wait"
    /\ UNCHANGED <<lkIdx, lkTicks>>
    /\ UNCHANGED progVars

\* ui(): the first mutex it locks (app.repos, line 578) and the second (line 642)
UiFirstLockMut == "L"

UiFirstLock == "R"

UiSecondLock == IF UiFirstLock = "R" THEN "L" ELSE "R"

Holder(l) == IF l = "R" THEN holdR ELSE holdL

Take(l, who) ==
    IF l = "R" THEN holdR' = who /\ UNCHANGED holdL ELSE holdL' = who /\ UNCHANGED holdR

\* run_app: terminal.draw(|f| ui(f, &mut app))
LkUiDraw ==
    /\ lkUi = "loop"
    /\ lkUi' = "r0"
    /\ UNCHANGED <<holdR, holdL, lkMain, lkPoll, lkIdx, lkTicks>>
    /\ UNCHANGED progVars

LkUiAcq1 ==
    /\ lkUi = "r0" /\ Holder(UiFirstLock) = "none"
    /\ Take(UiFirstLock, "ui") /\ lkUi' = "r1"
    /\ UNCHANGED <<lkMain, lkPoll, lkIdx, lkTicks>>
    /\ UNCHANGED progVars

LkUiAcq2 ==
    /\ lkUi = "r1" /\ Holder(UiSecondLock) = "none"
    /\ Take(UiSecondLock, "ui") /\ lkUi' = "r2"
    /\ UNCHANGED <<lkMain, lkPoll, lkIdx, lkTicks>>
    /\ UNCHANGED progVars

\* ui() returns: both guards dropped; then crossterm::event::poll
LkUiRel ==
    /\ lkUi = "r2"
    /\ holdR' = "none" /\ holdL' = "none" /\ lkUi' = "ev"
    /\ UNCHANGED <<lkMain, lkPoll, lkIdx, lkTicks>>
    /\ UNCHANGED progVars

\* no key, a navigation key (next / previous / toggle_expand lock repos) or 'q'
LkUiEvent ==
    /\ lkUi = "ev"
    /\ lkUi' \in {"loop", "k0", "quit"}
    /\ UNCHANGED <<holdR, holdL, lkMain, lkPoll, lkIdx, lkTicks>>
    /\ UNCHANGED progVars

LkUiKeyAcq ==
    /\ lkUi = "k0" /\ holdR = "none"
    /\ holdR' = "ui" /\ lkUi' = "k1"
    /\ UNCHANGED <<holdL, lkMain, lkPoll, lkIdx, lkTicks>>
    /\ UNCHANGED progVars

LkUiKeyRel ==
    /\ lkUi = "k1"
    /\ holdR' = "none" /\ lkUi' = "loop"
    /\ UNCHANGED <<holdL, lkMain, lkPoll, lkIdx, lkTicks>>
    /\ UNCHANGED progVars

\* monitor_repositories: repos.lock() at the start of a tick (line 478)
LkPollAcqR ==
    /\ lkPoll = "wait" /\ lkTicks < LockTicks /\ holdR = "none"
    /\ holdR' = "poller" /\ lkPoll' = "inR" /\ lkIdx' = 0
    /\ UNCHANGED <<holdL, lkMain, lkUi, lkTicks>>
    /\ UNCHANGED progVars

\* a message to push for the current repository: console_messages.lock()
LkPollNeedL ==
    /\ lkPoll = "inR" /\ lkIdx < Len(repos)
    /\ lkPoll' = "wantL"
    /\ UNCHANGED <<holdR, holdL, lkMain, lkUi, lkIdx, lkTicks>>
    /\ UNCHANGED progVars

LkPollAcqL ==
    /\ lkPoll = "wantL" /\ holdL = "none"
    /\ holdL' = "poller" /\ lkPoll' = "inRL"
    /\ UNCHANGED <<holdR, lkMain, lkUi, lkIdx, lkTicks>>
    /\ UNCHANGED progVars

\* console_guard dropped at the end of its block
LkPollRelL ==
    /\ lkPoll = "inRL"
    /\ holdL' = "none" /\ lkPoll' = "inR"
    /\ UNCHANGED <<holdR, lkMain, lkUi, lkIdx, lkTicks>>
    /\ UNCHANGED progVars

LkPollNextRepo ==
    /\ lkPoll = "inR" /\ lkIdx < Len(repos)
    /\ lkIdx' = lkIdx + 1
    /\ UNCHANGED <<holdR, holdL, lkMain, lkUi, lkPoll, lkTicks>>
    /\ UNCHANGED progVars

\* drop(repos_guard) (line 566)
LkPollRelR ==
    /\ lkPoll = "inR" /\ lkIdx >= Len(repos)
    /\ holdR' = "none" /\ lkPoll' = "wait" /\ lkTicks' = lkTicks + 1
    /\ UNCHANGED <<holdL, lkMain, lkUi, lkIdx>>
    /\ UNCHANGED progVars

LockNext ==
    \/ LkMainAcqR
    \/ LkMainAcqL
    \/ LkMainRel
    \/ LkUiDraw
    \/ LkUiAcq1
    \/ LkUiAcq2
    \/ LkUiRel
    \/ LkUiEvent
    \/ LkUiKeyAcq
    \/ LkUiKeyRel
    \/ LkPollAcqR
    \/ LkPollNeedL
    \/ LkPollAcqL
    \/ LkPollRelL
    \/ LkPollNextRepo
    \/ LkPollRelR

LockSpec == Init /\ [][LockNext]_vars

Next ==
    \/ Startup
    \/ PollerStart
    \/ PollerStep
    \/ PollerHang
    \/ PollerEnd
    \/ Render
    \/ KeyDown
    \/ KeyUp
    \/ KeyEnter
    \/ KeyQuit

Spec == Init /\ [][Next]_vars

\* startup validation and the interactive loop alone
NavNext ==
    \/ Startup
    \/ Render
    \/ KeyDown
    \/ KeyUp
    \/ KeyEnter
    \/ KeyQuit

\* up to three repositories, so wrap-around direction and multi-span sums are exercised
NavInit == InitWith(0..NavMaxRepos, MaxTicks)

NavSpec == NavInit /\ [][NavNext]_vars

\* the poller task, once inside a tick, keeps running until the tick ends
LiveSpec == Spec /\ WF_vars(PollerStep) /\ WF_vars(PollerEnd)

\* the poller and startup validation alone
PollNext ==
    \/ Startup
    \/ PollerStart
    \/ PollerStep
    \/ PollerHang
    \/ PollerEnd

PollSpec == PollInit /\ [][PollNext]_vars

LogSpec == LogInit /\ [][Next]_vars

\* ================================================================ claims

KindsOf(evs) == [j \in 1..Len(evs) |-> evs[j].kind]

CountKind(ks, k) == Cardinality({j \in 1..Len(ks) : ks[j] = k})

DeltaKinds == {"status", "new", "local"}

\* C1: on every successful poll of a repository with previous counts (pa, pb) and
\* new counts (a, b), exactly one delta notification is appended, picked by first
\* match: combined "status changed" if b > pb and a > pa, else "new commits" if
\* b > pb, else "local commits" if a > pa, none otherwise; and exactly one
\* "caught up" notification iff (pa > 0 or pb > 0) and a = 0 and b = 0.
C1_EventSynthesis ==
    [][ (PollerStep /\ lastPoll'.ok) =>
        LET i == pIdx + 1
            pa == repos[i].ahead
            pb == repos[i].behind
            a == repos'[i].ahead
            b == repos'[i].behind
            ks == KindsOf(lastPoll'.events)
            expected == CASE b > pb /\ a > pa -> "status"
                          [] b > pb /\ a <= pa -> "new"
                          [] b <= pb /\ a > pa -> "local"
                          [] OTHER -> "none"
        IN /\ \A k \in DeltaKinds : CountKind(ks, k) = (IF k = expected THEN 1 ELSE 0)
           /\ CountKind(ks, "caught") =
                (IF (pa > 0 \/ pb > 0) /\ a = 0 /\ b = 0 THEN 1 ELSE 0)
      ]_vars

\* C1 witness: a successful poll that appended the combined notification
C1_Witness ==
    /\ lastPoll.ok
    /\ \E j \in 1..Len(lastPoll.events) : lastPoll.events[j].kind = "status"

\* C2: the console log never holds more than 50 messages.
C2_LogCapacity == Len(log) <= Capacity

LastN(l, c) == IF Len(l) > c THEN SubSeq(l, Len(l) - c + 1, Len(l)) ELSE l

\* C3: every append leaves the log as the most recent (at most) 50 messages in
\* insertion order; appending to a full log drops only the oldest messages.
C3_EvictOldest ==
    [][ nextId' > nextId =>
          log' = LastN(AppendIds(log, nextId, nextId' - nextId), Capacity) ]_vars

\* C4: when the query for repository X fails, X's ahead, behind and branch are
\* unchanged, exactly one error message naming X is appended, the tick goes on
\* with the next repository, and a tick ends only once every repository was queried.
C4_ErrorRetainsStatus ==
    [][ /\ (PollerStep /\ ~lastPoll'.ok) =>
              LET i == pIdx + 1 IN
              /\ repos'[i].ahead = repos[i].ahead
              /\ repos'[i].behind = repos[i].behind
              /\ repos'[i].branch = repos[i].branch
              /\ Len(log') = Len(log) + 1
              /\ lastPoll'.events = <<[kind |-> "error", repo |-> pIdx]>>
              /\ pIdx' = pIdx + 1
        /\ (pollerPc = "tick" /\ pollerPc' = "idle") => pIdx = Len(repos)
      ]_vars

\* C4 witness: a failed query, on a repository with non-zero counts, before another
\* repository of the same tick
C4_Witness ==
    /\ ~lastPoll.ok
    /\ lastPoll.repo >= 0
    /\ pIdx < Len(repos)
    /\ repos[lastPoll.repo + 1].ahead + repos[lastPoll.repo + 1].behind > 0

EffectiveRemote(c) == IF c = "none" THEN "origin" ELSE c

\* C5: each repository is queried against its configured remote, "origin" only when
\* none is configured.
C5_ConfiguredRemote ==
    lastPoll.repo >= 0 =>
        lastPoll.remote = EffectiveRemote(cfgRemote[lastPoll.repo + 1])

\* first table row of repository k: k repository rows plus the commit rows of the
\* expanded repositories before it
RECURSIVE RepoStart(_, _)
RepoStart(rs, k) ==
    IF k = 0 THEN 0
    ELSE RepoStart(rs, k - 1) + 1 + (IF rs[k].expanded THEN rs[k].commits ELSE 0)

TotalRows(rs) == RepoStart(rs, Len(rs))

UIStep == Render \/ KeyDown \/ KeyUp \/ KeyEnter

\* C6 (original): the poller holds the registry lock for a whole tick, so every read
\* of the interactive loop (render or key handling) sees all repositories of a tick
\* updated or none of them; and a started tick, failures included, always ends and
\* releases the lock.
C6_TickAtomicity ==
    /\ [][ UIStep => pIdx \in {0, Len(repos)} ]_vars
    /\ ((pollerPc = "tick") ~> (pollerPc = "idle" /\ lockR = "none"))

\* C6 (amended): every read of the interactive loop sees all repositories of a tick
\* updated or none; a failed query never stops the tick, which ends and releases the
\* lock unless a query never returns, in which case the lock stays held for good.
C6_TickAtomicityAmended ==
    /\ [][ UIStep => pIdx \in {0, Len(repos)} ]_vars
    /\ ((pollerPc = "tick") ~> (pollerPc = "blocked" \/ (pollerPc = "idle" /\ lockR = "none")))
    /\ [](pollerPc = "blocked" => lockR = "poller")

\* C6 witness: the interactive loop has the registry after a tick over two repositories
C6_Witness ==
    /\ ticks >= 1
    /\ Len(repos) >= 2
    /\ lockR = "none"
    /\ lastKey # "none"

\* C7: flatten (calculate_table_row) and unflatten (get_selected_repo_index) are
\* inverse: unflatten(flatten(i)) = i for every repository index, flatten(unflatten(r)) = r
\* for every repository row r, and every commit row maps to its owning repository.
C7_FlattenInverse ==
    LET n == Len(repos) IN
    /\ \A i \in 0..(n - 1) :
          GetSelectedRepoIndex(repos, CalculateTableRow(repos, i)) = i
    /\ \A k \in 0..(n - 1) :
          \A r \in RepoStart(repos, k)..(RepoStart(repos, k + 1) - 1) :
              /\ GetSelectedRepoIndex(repos, r) = k
              /\ r = RepoStart(repos, k) =>
                    CalculateTableRow(repos, GetSelectedRepoIndex(repos, r)) = r

\* C7 witness: three repositories, the first two expanded with several commit rows each
C7_Witness ==
    /\ Len(repos) >= 3
    /\ repos[1].expanded /\ repos[1].commits >= 2
    /\ repos[2].expanded /\ repos[2].commits >= 1

C9_NavigationWraps ==
    [][ LET n == Len(repos)
            i == GetSelectedRepoIndex(repos, sel)
            j == GetSelectedRepoIndex(repos, sel')
        IN /\ (KeyDown /\ n >= 1) => j = (i + 1) % n
           /\ (KeyUp /\ n >= 1) => j = (i - 1 + n) % n ]_vars

\* C9 witness: previous() from the first of three repositories selected the last one
C9_Witness ==
    /\ lastKey = "up"
    /\ Len(repos) >= 3
    /\ GetSelectedRepoIndex(repos, sel) = Len(repos) - 1
    /\ \E k \in 1..Len(repos) : repos[k].expanded

\* C11: with an empty repository list there is never a selection, and next, previous
\* and toggle_expand leave the whole program state unchanged.
C11_EmptyListNoOps ==
    /\ [](Len(repos) = 0 => sel = NoSel)
    /\ [][ ((KeyDown \/ KeyUp \/ KeyEnter) /\ Len(repos) = 0) =>
            UNCHANGED <<repos, cfgRemote, log, nextId, sel, mainPc, shouldQuit,
                        lockR, pollerPc, pIdx, ticks, tickBudget, lastPoll>> ]_vars

\* C11 witness: a navigation key handled with no repositories configured
C11_Witness ==
    /\ Len(repos) = 0
    /\ lastKey \in {"down", "up", "enter"}

PolledBehindRose ==
    /\ PollerStep
    /\ lastPoll'.ok
    /\ repos'[pIdx + 1].behind > repos[pIdx + 1].behind

PolledCaughtUp ==
    /\ PollerStep
    /\ lastPoll'.ok
    /\ repos[pIdx + 1].ahead + repos[pIdx + 1].behind > 0
    /\ repos'[pIdx + 1].ahead = 0
    /\ repos'[pIdx + 1].behind = 0

\* C12: when behind increases in a tick the repository's highlight becomes red; when it
\* goes from diverged to fully synced the highlight becomes green.
C12_FlashHighlight ==
    [][ /\ PolledBehindRose => UiRowStyle(repos'[pIdx + 1]) = "red"
        /\ PolledCaughtUp => UiRowStyle(repos'[pIdx + 1]) = "green" ]_vars

\* C13: highlight intensity banded by remaining fraction; a highlight just entered
\* (remaining = total, fraction 1 > 0.8) reads as maximum emphasis.
C13_HighlightBanding ==
    [][ PolledBehindRose => UiRowEmphasis(repos'[pIdx + 1]) = "maximum" ]_vars

\* C14: toggle_expand flips the selected repository's expand flag only; it replaces that
\* repository's commit list (at most max_commits entries) only when expanding and leaves
\* it as is when collapsing; no other repository, count or branch changes; afterwards
\* the selection is flatten(i) for the same repository index i.
C14_ToggleFrame ==
    [][ (KeyEnter /\ Len(repos) > 0) =>
          LET i == GetSelectedRepoIndex(repos, sel)
              r == repos[i + 1]
              r2 == repos'[i + 1]
          IN /\ r2.expanded = ~r.expanded
             /\ r2.ahead = r.ahead /\ r2.behind = r.behind /\ r2.branch = r.branch
             /\ ~r.expanded => r2.commits <= MaxCommits
             /\ r.expanded => r2.commits = r.commits
             /\ \A j \in DOMAIN repos : j # i + 1 => repos'[j] = repos[j]
             /\ sel' = CalculateTableRow(repos', i)
             /\ GetSelectedRepoIndex(repos', sel') = i ]_vars

\* C14 witness: a repository collapsed after an expansion still holds its commits
C14_Witness ==
    /\ lastKey = "enter"
    /\ \E k \in DOMAIN repos : ~repos[k].expanded /\ repos[k].commits > 0

Procs == {"main", "ui", "poller"}

\* the mutex a process is blocked on at its current position, if any
Wants(p) ==
    CASE p = "main" /\ lkMain = "s0" -> "R"
      [] p = "main" /\ lkMain = "s1" -> "L"
      [] p = "ui" /\ lkUi = "r0" -> UiFirstLock
      [] p = "ui" /\ lkUi = "r1" -> UiSecondLock
      [] p = "ui" /\ lkUi = "k0" -> "R"
      [] p = "poller" /\ lkPoll = "wait" -> "R"
      [] p = "poller" /\ lkPoll = "wantL" -> "L"
      [] OTHER -> "-"

\* C15: the registry lock is always taken before the log lock (whoever holds the log
\* lock holds the registry lock), and no two activities each hold one lock while
\* waiting for the other.
C15_LockOrder ==
    /\ holdL # "none" => holdR = holdL
    /\ ~\E p, q \in Procs :
          /\ p # q
          /\ holdR = p /\ Wants(p) = "L"
          /\ holdL = q /\ Wants(q) = "R"

\* C15 witness: the poller holds the registry and wants the log while the interactive
\* loop waits to draw
C15_Witness ==
    /\ holdR = "poller"
    /\ lkPoll = "wantL"
    /\ lkUi = "r0"

====
